---- MODULE Spec2Model ----
(***************************************************************************)
(* Session fan-out layer of the collaborative editor backend:              *)
(*   websocket_manager.py   ConnectionManager (registry, router, relay)    *)
(*   document_persistence.py DocumentPersistenceManager (write-back cache) *)
(*   main.py                websocket_endpoint (session gateway)           *)
(*                                                                         *)
(* Every coroutine is cut at its awaits: one action is the code a task     *)
(* runs between two suspension points of the asyncio event loop.           *)
(***************************************************************************)
EXTENDS Integers, Sequences, FiniteSets, Bags, TLC

\* ---------------------------------------------------------------- bounds
NumConns == 3          \* WebSocket connections (one gateway task each)
MaxInbound == 1        \* inbound envelopes read, over all connections
MaxCloses == 1         \* connections the client side closes (or whose transport fails)
MaxSweeps == 2         \* timer wake-ups of the auto-save loop
MaxStarts == 2         \* start_auto_save() calls
MaxAdmitted == 2       \* connections admitted where requests may also be refused
MaxStream == 2         \* envelopes one sender sends in a row

None == "None"
Procs == {"A", "B"}
UserOrder == <<"u1", "u2", "u3", "u4">>
Users == {UserOrder[i] : i \in 1 .. NumConns}
Conns == 1 .. NumConns
Contents == {"x", "y"}

\* Document ids are strings; a string is the sequence of its characters.
\* "sup2" stands for the one character U+00B2 (superscript two).
Doc7 == <<"7">>
Doc07 == <<"0", "7">>
DocDemo == <<"d">>
DocSup == <<"sup2">>
DocIds == {Doc7, Doc07, DocDemo, DocSup}

\* ------------------------------------------------------- python builtins
DecimalChars == {"0", "7"}
DigitChars == DecimalChars \cup {"sup2"}
DigitVal(ch) == IF ch = "7" THEN 7 ELSE 0

\* str.isdigit(): non-empty and every character has the Unicode property
\* Digit (the decimal digits, and also characters such as superscript two).
isdigit(s) == Len(s) > 0 /\ \A i \in DOMAIN s : s[i] \in DigitChars

\* int(s) raises ValueError unless every character is a decimal digit.
IntRaises(s) == Len(s) = 0 \/ \E i \in DOMAIN s : s[i] \notin DecimalChars

RECURSIVE int(_)
int(s) == IF Len(s) = 0 THEN 0
          ELSE 10 * int(SubSeq(s, 1, Len(s) - 1)) + DigitVal(s[Len(s)])

RowIds == {int(d) : d \in {e \in DocIds : isdigit(e) /\ ~IntRaises(e)}}

\* A dict in insertion order: the entries array of CPython's dict.  A deleted
\* key leaves a dead entry behind; a new key is appended; an existing key is
\* overwritten in place.
Entry(u, h) == [k |-> u, v |-> h, live |-> TRUE]
LiveIdx(es) == {i \in DOMAIN es : es[i].live}
DictKeys(es) == {es[i].k : i \in LiveIdx(es)}
DictLen(es) == Cardinality(LiveIdx(es))
DictIdx(es, u) == CHOOSE i \in LiveIdx(es) : es[i].k = u
DictSet(es, u, h) ==
    IF u \in DictKeys(es) THEN [es EXCEPT ![DictIdx(es, u)].v = h]
    ELSE Append(es, Entry(u, h))
DictDel(es, u) == [es EXCEPT ![DictIdx(es, u)].live = FALSE]
DictItems(es) == {[k |-> es[i].k, v |-> es[i].v] : i \in LiveIdx(es)}

\* list(d.keys()): the live keys in insertion order.
RECURSIVE KeyList(_)
KeyList(es) ==
    IF es = <<>> THEN <<>>
    ELSE IF es[1].live THEN <<es[1].k>> \o KeyList(Tail(es))
    ELSE KeyList(Tail(es))

\* A dict iterator (dictiter_iternextitem): di_pos, di_used, len.  stale marks
\* an iterator whose dict object was deleted from active_connections: that
\* object is empty for ever, so its size differs from di_used.
NoIter == [pos |-> 0, used |-> 0, len |-> 0, stale |-> FALSE]
NewIter(es) == [pos |-> 1, used |-> DictLen(es), len |-> DictLen(es), stale |-> FALSE]
NoItem == [kind |-> "stop", k |-> None, v |-> 0, it |-> NoIter]

NextLive(es, pos) ==
    LET S == {i \in LiveIdx(es) : i >= pos}
    IN  IF S = {} THEN 0 ELSE CHOOSE i \in S : \A j \in S : i <= j

\* next(iterator): an item, StopIteration ("stop") or RuntimeError ("error").
IterNext(es, it) ==
    IF it.stale \/ it.used # DictLen(es)
    THEN [NoItem EXCEPT !.kind = "error"]
    ELSE LET i == NextLive(es, it.pos)
         IN  IF i = 0 THEN NoItem
             ELSE IF it.len = 0 THEN [NoItem EXCEPT !.kind = "error"]
             ELSE [kind |-> "item", k |-> es[i].k, v |-> es[i].v,
                   it |-> [it EXCEPT !.pos = i + 1, !.len = @ - 1]]

\* bool(exclude_user): None and the empty string are false.
Truthy(x) == x # None /\ x # ""

\* The head of the delivery loops: fetch items until one is not the excluded
\* user (the "continue" branch has no await).
RECURSIVE NextTarget(_, _, _)
NextTarget(es, it, exclude) ==
    LET r == IterNext(es, it)
    IN  IF r.kind = "item" /\ Truthy(exclude) /\ r.k = exclude
        THEN NextTarget(es, r.it, exclude)
        ELSE r


\* ------------------------------------------------------------------ state
VARIABLES
    active_connections,   \* [proc][doc]: the dict {user_id: WebSocket}; <<>> = no room
    subscribed_documents, \* [proc]: self.subscribed_documents
    redis,                \* [proc]: self.redis is not None (connect_redis succeeded)
    bus_ok,               \* the bus answers publish / subscribe commands
    inbox,                \* [proc]: messages the bus has pushed to self.pubsub, unread
    listener,             \* [conn]: the _redis_listener task that conn's connect() created
    ws,                   \* [conn]: the WebSocket's transport: "new", "open",
                          \*   "closed" (by the peer), "ended" (by the server)
    task,                 \* [conn]: the websocket_endpoint coroutine of the connection
    call,                 \* [conn]: its broadcast_to_document frame
    sent,                 \* [conn]: envelopes delivered to the handle, in order
    called,               \* the broadcast_to_document calls made so far
    published,            \* bag of the envelopes the bus has accepted
    relayed,              \* [proc]: envelopes a listener has walked its room for
    ended,                \* the broadcast_to_document call that ended last
    document_cache,       \* [doc]: self.document_cache.get(doc)
    dirty_documents,      \* self.dirty_documents, in insertion order
    db,                   \* [row id]: documents.content of the durable store
    save_task,            \* self.save_task and the position of auto_save_loop;
                          \*   orphans: live tasks self.save_task no longer refers to
    last                  \* the last persistence operation and what it did

logVars == <<called, published, relayed>>
\* ended is written by every step that ends a call, so it is listed apart.
regVars == <<active_connections, subscribed_documents, redis, bus_ok, inbox,
             listener, ws, task, call, sent, logVars, ended>>
cacheVars == <<document_cache, dirty_documents, db, save_task, last>>
vars == <<regVars, cacheVars>>

\* Envelopes.  src and n identify the call that built the envelope (in the
\* code every envelope is a fresh dict object).
Envelope(type, user, src, n, data) ==
    [type |-> type, user_id |-> user, src |-> src, n |-> n, data |-> data,
     active_users |-> <<>>]
NoMsg == Envelope("none", None, 0, 0, None)

IdleTask == [pc |-> "idle", proc |-> "A", doc |-> Doc7, user |-> "u1",
             ctx |-> "none", snap |-> <<>>, content |-> None, inb |-> 0]
NoCur == [k |-> None, v |-> 0]
\* A broadcast_to_document frame.  snapshot, delivered and raisedOn record
\* the room at the call and the handles its sends reached or raised on; by is
\* the task whose call it was, once the call has ended.
NoCall == [at |-> "none", msg |-> NoMsg, exclude |-> None, it |-> NoIter,
           cur |-> NoCur, failed |-> <<>>,
           snapshot |-> {}, delivered |-> {}, raisedOn |-> {}, by |-> 0]
NoListener == [st |-> "none", proc |-> "A", doc |-> Doc7, msg |-> NoMsg,
               exclude |-> None, it |-> NoIter, cur |-> NoCur]

\* ------------------------------------------------- write-back cache: pure
\* The ordered dict dirty_documents: keys are never removed.
DirtyKeys(dd) == {dd[i].k : i \in DOMAIN dd}
DirtyIdx(dd, d) == CHOOSE i \in DOMAIN dd : dd[i].k = d
IsDirty(dd, d) == d \in DirtyKeys(dd) /\ dd[DirtyIdx(dd, d)].v
DirtySet(dd, d, b) ==
    IF d \in DirtyKeys(dd) THEN [dd EXCEPT ![DirtyIdx(dd, d)].v = b]
    ELSE Append(dd, [k |-> d, v |-> b])

\* An update that writes into the old value instead of replacing it: the
\* result is a mix of the two, which no call was given.
update_document_mixed(cache, dd, d, content) ==
    <<[cache EXCEPT ![d] = IF @ \in {None, content} THEN content ELSE "torn"],
      DirtySet(dd, d, TRUE)>>

\* update_document: returns the new <<document_cache, dirty_documents>>.
update_document(cache, dd, d, content) ==
    <<[cache EXCEPT ![d] = content], DirtySet(dd, d, TRUE)>>

\* load_document: <<document_cache, dirty_documents, returned content>>.
\* int() raising ValueError, like a failed query, ends in "return None".
LoadFinds(store, d) == isdigit(d) /\ ~IntRaises(d) /\ store[int(d)] # None
load_document(cache, dd, store, d) ==
    IF LoadFinds(store, d)
    THEN <<[cache EXCEPT ![d] = store[int(d)]], DirtySet(dd, d, FALSE), store[int(d)]>>
    ELSE <<cache, dd, None>>

\* The row a document id is saved to, when save_all_dirty_documents gets as
\* far as a query for it.
Savable(d) == isdigit(d) /\ ~IntRaises(d)

\* save_all_dirty_documents, one turn of its for loop on the item e of
\* list(self.dirty_documents.items()).  F: the documents whose db.commit()
\* raises.  st: the store, dirty_documents, the documents whose write was
\* attempted (commit reached) and those whose commit raised (rolled back).
\* int() raising ValueError also ends in the except branch, nothing written.
SaveOne(st, cache, e, F) ==
    IF ~e.v \/ cache[e.k] = None THEN st
    ELSE IF ~isdigit(e.k) THEN st
    ELSE IF IntRaises(e.k) THEN st
    ELSE IF e.k \in F
         THEN [st EXCEPT !.tried = @ \cup {e.k}, !.failed = @ \cup {e.k}]
    ELSE [st EXCEPT !.db[int(e.k)] = cache[e.k],
                    !.dd = DirtySet(@, e.k, FALSE),
                    !.tried = @ \cup {e.k}]

RECURSIVE SaveFrom(_, _, _, _)
SaveFrom(st, cache, items, F) ==
    IF items = <<>> THEN st
    ELSE SaveFrom(SaveOne(st, cache, Head(items), F), cache, Tail(items), F)

\* save_all_dirty_documents: it has no await, so a sweep is one step.
save_all_dirty_documents(cache, dd, store, F) ==
    SaveFrom([db |-> store, dd |-> dd, tried |-> {}, failed |-> {}], cache, dd, F)

\* ------------------------------------------------------- registry: pure
\* ConnectionManager.disconnect on the registry value ac.
DelOrDrop(es, u) ==
    LET e2 == DictDel(es, u) IN IF DictLen(e2) = 0 THEN <<>> ELSE e2
\* A disconnect that removes the handle and keeps the emptied room.
disconnect_keeps_room(ac, p, d, u) ==
    IF ac[p][d] # <<>> /\ u \in DictKeys(ac[p][d])
    THEN [ac EXCEPT ![p][d] = DictDel(@, u)]
    ELSE ac
disconnect(ac, p, d, u) ==
    IF ac[p][d] # <<>> /\ u \in DictKeys(ac[p][d])
    THEN [ac EXCEPT ![p][d] = DelOrDrop(@, u)]
    ELSE ac

\* get_active_users
get_active_users(ac, p, d) == KeyList(ac[p][d])

\* "for user_id in disconnected_users: self.disconnect(document_id, user_id)"
RECURSIVE PruneAll(_, _, _, _)
PruneAll(ac, p, d, failed) ==
    IF failed = <<>> THEN ac
    ELSE PruneAll(disconnect(ac, p, d, failed[1].k), p, d, Tail(failed))

\* The room objects that ac2 no longer holds: iterators over them are stale.
Dropped(ac1, ac2, p, d) == ac1[p][d] # <<>> /\ ac2[p][d] = <<>>

\* The delivery loop up to its next await: the frame waits in a send
\* ("send"), has left the loop ("cleanup"), or next() raised ("raised").
LoopStep(es, fr) ==
    LET r == NextTarget(es, fr.it, fr.exclude)
    IN  CASE r.kind = "item" ->
               [fr EXCEPT !.at = "send", !.it = r.it, !.cur = [k |-> r.k, v |-> r.v]]
          [] r.kind = "stop" -> [fr EXCEPT !.at = "cleanup", !.cur = NoCur]
          [] OTHER -> [fr EXCEPT !.at = "raised", !.cur = NoCur]

\* broadcast_to_document from its first line to its first await.
BeginCall(es, msg, exclude) ==
    LET fr == [NoCall EXCEPT !.msg = msg, !.exclude = exclude,
                             !.snapshot = DictItems(es)]
    IN  IF es = <<>> THEN [fr EXCEPT !.at = "cleanup"]
        ELSE LoopStep(es, [fr EXCEPT !.it = NewIter(es)])


\* ------------------------------------------------------------ bookkeeping
\* What the last persistence operation was and which documents it touched.
LastRec(op, d, tried, failed, before) ==
    [op |-> op, doc |-> d, tried |-> tried, failed |-> failed, before |-> before]
NoLast == LastRec("none", <<>>, {}, {}, {})

DirtyDocs(dd) == {d \in DocIds : IsDirty(dd, d)}

\* persistence_manager.update_document(document_id, content)
DoUpdate(d, content) ==
    LET r == update_document(document_cache, dirty_documents, d, content)
    IN  /\ document_cache' = r[1]
        /\ dirty_documents' = r[2]
        /\ last' = LastRec("update", d, {}, {}, DirtyDocs(dirty_documents))
        /\ UNCHANGED <<db, save_task>>

\* An iterator of another task dies with the room object it walks.
StaleCall(fr, t, ac1, ac2) ==
    IF fr.at = "send" /\ Dropped(ac1, ac2, t.proc, t.doc)
    THEN [fr EXCEPT !.it.stale = TRUE] ELSE fr
StaleListener(l, ac1, ac2) ==
    IF l.st = "send" /\ Dropped(ac1, ac2, l.proc, l.doc)
    THEN [l EXCEPT !.it.stale = TRUE] ELSE l

\* The state a step has built so far: registry, transports, listeners.
Pre == [ac |-> active_connections, ws |-> ws, ls |-> listener]

\* Write task c's record and frame, the registry, and what follows from them:
\* other tasks' iterators over a dropped room go stale, and the server closes
\* the socket of an endpoint coroutine that has ended.
Commit(c, t2, fr2, s) ==
    /\ active_connections' = s.ac
    /\ task' = [task EXCEPT ![c] = t2]
    /\ call' = [c2 \in Conns |->
                  IF c2 = c THEN fr2
                  ELSE StaleCall(call[c2], task[c2], active_connections, s.ac)]
    /\ listener' = [l \in Conns |-> StaleListener(s.ls[l], active_connections, s.ac)]
    /\ ws' = IF t2.pc \in {"done", "crashed"} /\ s.ws[c] = "open"
             THEN [s.ws EXCEPT ![c] = "ended"]
             ELSE s.ws

\* websocket_endpoint after broadcast_to_document has ended, up to its next
\* await.  ok: the call returned; ~ok: it raised.
\*   connect():   returned -> load_document, then await the init send
\*                raised   -> the exception leaves the endpoint
\*   receive loop: returned -> await receive_text()
\*                raised   -> except Exception: manager.disconnect(...)
\*   user_left:   the coroutine ends either way
Return(c, t, fr, s, ok, ownCache) ==
    LET pc2 == CASE t.ctx = "connect" -> IF ok THEN "init" ELSE "crashed"
                 [] t.ctx = "recv" -> IF ok THEN "recv" ELSE "done"
                 [] OTHER -> IF ok THEN "done" ELSE "crashed"
        ac2 == IF t.ctx = "recv" /\ ~ok
               THEN disconnect(s.ac, t.proc, t.doc, t.user) ELSE s.ac
        ld == load_document(document_cache, dirty_documents, db, t.doc)
    IN  /\ ended' = [fr EXCEPT !.at = IF ok THEN "returned" ELSE "raised", !.by = c]
        /\ IF t.ctx = "connect" /\ ok
           THEN /\ Commit(c, [t EXCEPT !.pc = pc2, !.content = ld[3]], NoCall, s)
                /\ document_cache' = ld[1]
                /\ dirty_documents' = ld[2]
                /\ last' = LastRec("load", t.doc, {}, {}, DirtyDocs(dirty_documents))
                /\ UNCHANGED <<db, save_task>>
           ELSE /\ Commit(c, [t EXCEPT !.pc = pc2], NoCall, [s EXCEPT !.ac = ac2])
                /\ IF ownCache THEN TRUE ELSE UNCHANGED cacheVars

\* broadcast_to_document from the end of a send (or from its start) to its
\* next await, and the caller's code when the call ends without another await.
Settle(c, t, fr, s, ownCache) ==
    CASE fr.at = "send" ->
           /\ Commit(c, [t EXCEPT !.pc = "bcast"], fr, s)
           /\ ended' = ended
           /\ IF ownCache THEN TRUE ELSE UNCHANGED cacheVars
      [] fr.at = "cleanup" ->
           LET s1 == [s EXCEPT !.ac = PruneAll(s.ac, t.proc, t.doc, fr.failed)]
           IN  IF redis[t.proc]
               THEN /\ Commit(c, [t EXCEPT !.pc = "bcast"], [fr EXCEPT !.at = "publish"], s1)
                    /\ ended' = ended
                    /\ IF ownCache THEN TRUE ELSE UNCHANGED cacheVars
               ELSE Return(c, t, fr, s1, TRUE, ownCache)
      [] OTHER -> Return(c, t, fr, s, FALSE, ownCache)

\* The record of a call: its envelope and exclude_user, its process, the
\* processes that were subscribed to the document's channel when it was made,
\* and the document's room on each process at that moment.
CallRec(m, x, t, sd, ac) ==
    [m |-> m, exclude |-> x, proc |-> t.proc, doc |-> t.doc,
     subs |-> {q \in Procs : t.doc \in sd[q]},
     rooms |-> [q \in Procs |-> DictItems(ac[q][t.doc])]]

\* connect(): the user_joined broadcast that ends it.
JoinBroadcast(c, t, s, sd) ==
    LET m == Envelope("user_joined", t.user, c, 0, None)
    IN  /\ Settle(c, [t EXCEPT !.ctx = "connect"],
                  BeginCall(s.ac[t.proc][t.doc], m, t.user), s, FALSE)
        /\ called' = called \cup {CallRec(m, t.user, t, sd, s.ac)}

RECURSIVE SumInb(_, _)
SumInb(tk, n) == IF n = 0 THEN 0 ELSE tk[n].inb + SumInb(tk, n - 1)
Closes == Cardinality({c \in Conns : ws[c] = "closed"})

\* Connections arrive in the order of their numbers, and participant ids are
\* taken in the order of UserOrder (ids are only compared for equality).
UsedUsers == {task[c].user : c \in {c2 \in Conns : task[c2].pc \notin {"idle", "rejected"}}}
FirstUse(u) ==
    \A i \in 1 .. NumConns :
        UserOrder[i] = u => \A j \in 1 .. (i - 1) : UserOrder[j] \in UsedUsers

\* ------------------------------------------------------- gateway actions
\* websocket_endpoint: the token is verified, the active users are
\* snapshotted, then connect() awaits websocket.accept().
Start(c, p, d, u) ==
    /\ task[c].pc = "idle"
    /\ \A c2 \in Conns : c2 < c => task[c2].pc # "idle"
    /\ FirstUse(u)
    /\ task' = [task EXCEPT ![c] =
                  [IdleTask EXCEPT !.pc = "accept", !.proc = p, !.doc = d, !.user = u,
                                   !.snap = get_active_users(active_connections, p, d)]]
    /\ UNCHANGED <<active_connections, subscribed_documents, redis, bus_ok, inbox,
                   listener, ws, call, sent, logVars, ended, cacheVars>>

\* The token of the connection request: missing (None), empty, not a valid
\* credential ("bad"), or the credential issued to the i-th participant.
TokenOrder == <<"t1", "t2", "t3", "t4">>
Tokens == {None, "", "bad"} \cup {TokenOrder[i] : i \in 1 .. NumConns}

\* verify_token (auth module): the "sub" of the payload of a valid token,
\* None for any other token.
verify_token(tok) ==
    IF \E i \in 1 .. NumConns : TokenOrder[i] = tok
    THEN UserOrder[CHOOSE i \in 1 .. NumConns : TokenOrder[i] = tok]
    ELSE None

\* A refusal that registers the handle before it closes the socket.
Reject_registers(c) ==
    /\ task[c].pc = "idle"
    /\ \A c2 \in Conns : c2 < c => task[c2].pc # "idle"
    /\ task' = [task EXCEPT ![c].pc = "rejected"]
    /\ ws' = [ws EXCEPT ![c] = "ended"]
    /\ active_connections' = [active_connections EXCEPT !["A"][Doc7] = DictSet(@, "u1", c)]
    /\ UNCHANGED <<subscribed_documents, redis, bus_ok, inbox, listener, call, sent,
                   logVars, ended, cacheVars>>

\* websocket_endpoint with a missing or invalid token: websocket.close(code=
\* 1008, reason=...) and return.
Reject(c) ==
    /\ task[c].pc = "idle"
    /\ \A c2 \in Conns : c2 < c => task[c2].pc # "idle"
    /\ task' = [task EXCEPT ![c].pc = "rejected"]
    /\ ws' = [ws EXCEPT ![c] = "ended"]
    /\ UNCHANGED <<active_connections, subscribed_documents, redis, bus_ok, inbox,
                   listener, call, sent, logVars, ended, cacheVars>>

\* websocket_endpoint from the request to its first await.
Handshake(c, p, d, tok) ==
    IF ~Truthy(tok) \/ verify_token(tok) = None
    THEN Reject(c)
    ELSE Start(c, p, d, verify_token(tok))

\* A connect() that adds the handle beside the one the id already has.
Accept_appends(c) ==
    LET t == task[c]
        s == [Pre EXCEPT !.ac[t.proc][t.doc] = Append(@, Entry(t.user, c)),
                         !.ws[c] = "open"]
    IN  /\ t.pc = "accept"
        /\ IF redis[t.proc] /\ t.doc \notin subscribed_documents[t.proc]
           THEN /\ Commit(c, [t EXCEPT !.pc = "subscribe"], call[c], s)
                /\ UNCHANGED <<called, ended, cacheVars>>
           ELSE JoinBroadcast(c, t, s, subscribed_documents)
        /\ UNCHANGED <<subscribed_documents, redis, bus_ok, inbox, sent,
                       published, relayed>>
\* connect() after accept(): register the handle; then subscribe (an await)
\* or go on to the user_joined broadcast.
Accept(c) ==
    LET t == task[c]
        s == [Pre EXCEPT !.ac[t.proc][t.doc] = DictSet(@, t.user, c),
                         !.ws[c] = "open"]
    IN  /\ t.pc = "accept"
        /\ IF redis[t.proc] /\ t.doc \notin subscribed_documents[t.proc]
           THEN /\ Commit(c, [t EXCEPT !.pc = "subscribe"], call[c], s)
                /\ UNCHANGED <<called, ended, cacheVars>>
           ELSE JoinBroadcast(c, t, s, subscribed_documents)
        /\ UNCHANGED <<subscribed_documents, redis, bus_ok, inbox, sent,
                       published, relayed>>

\* _subscribe_to_document after pubsub.subscribe(): on success the document
\* is marked subscribed and a listener task is created; an exception is logged.
SubscribeDone(c) ==
    LET t == task[c]
        s == IF bus_ok
             THEN [Pre EXCEPT !.ls[c] = [NoListener EXCEPT !.st = "wait",
                                           !.proc = t.proc, !.doc = t.doc]]
             ELSE Pre
        sd == IF bus_ok THEN [subscribed_documents EXCEPT ![t.proc] = @ \cup {t.doc}]
              ELSE subscribed_documents
    IN  /\ t.pc = "subscribe"
        /\ subscribed_documents' = sd
        /\ JoinBroadcast(c, t, s, sd)
        /\ UNCHANGED <<redis, bus_ok, inbox, sent, published, relayed>>

\* broadcast_to_document: the send it awaits ends; a send on a closed
\* transport raises and the user is noted in disconnected_users.
BStep(c) ==
    LET t == task[c]
        fr == call[c]
        h == fr.cur.v
        okSend == ws[h] = "open"
        fr1 == IF okSend THEN [fr EXCEPT !.delivered = @ \cup {h}]
               ELSE [fr EXCEPT !.failed = Append(@, fr.cur), !.raisedOn = @ \cup {h}]
    IN  /\ t.pc = "bcast" /\ fr.at = "send"
        /\ sent' = IF okSend THEN [sent EXCEPT ![h] = Append(@, fr.msg)] ELSE sent
        /\ Settle(c, t, LoopStep(active_connections[t.proc][t.doc], fr1), Pre, FALSE)
        /\ UNCHANGED <<subscribed_documents, redis, bus_ok, inbox, logVars>>

\* _publish_to_redis after redis.publish(): the bus pushes the message to
\* every subscriber of the channel; an exception is logged.
BusMsg(d, m, x) == [channel |-> d, message |-> m, exclude_user |-> x]
Publish(c) ==
    LET t == task[c]
        fr == call[c]
    IN  /\ t.pc = "bcast" /\ fr.at = "publish"
        /\ inbox' = IF bus_ok
                    THEN [q \in Procs |->
                            IF t.doc \in subscribed_documents[q]
                            THEN Append(inbox[q], BusMsg(t.doc, fr.msg, fr.exclude))
                            ELSE inbox[q]]
                    ELSE inbox
        /\ published' = IF bus_ok THEN published (+) SetToBag({fr.msg}) ELSE published
        /\ Return(c, t, fr, Pre, TRUE, FALSE)
        /\ UNCHANGED <<subscribed_documents, redis, bus_ok, sent, called, relayed>>

\* send_personal_message(message, websocket) once send_json has ended on a
\* transport in state w: whether the message was delivered, and whether the
\* call raised.  The except branch logs the exception and the call returns.
send_personal_message(w) == [delivered |-> w = "open", raised |-> FALSE]

\* websocket_endpoint: the init envelope is sent; the call is outside the
\* try block, so an exception from it would leave the endpoint.
InitEnvelope(c, t) ==
    [Envelope("init", t.user, c, 0, t.content) EXCEPT !.active_users = t.snap]
InitSent(c) ==
    LET t == task[c]
        r == send_personal_message(ws[c])
    IN  /\ t.pc = "init"
        /\ sent' = IF r.delivered THEN [sent EXCEPT ![c] = Append(@, InitEnvelope(c, t))]
                   ELSE sent
        /\ task' = [task EXCEPT ![c].pc = IF r.raised THEN "crashed" ELSE "recv"]
        /\ UNCHANGED <<active_connections, subscribed_documents, redis, bus_ok, inbox,
                       listener, ws, call, logVars, ended, cacheVars>>

\* A receive loop that goes on reading from a transport that has failed.
Read_dead_transport(c, type, content) ==
    LET t == task[c]
        t2 == [t EXCEPT !.inb = @ + 1, !.ctx = "recv"]
        msg == Envelope(type, t.user, c, t2.inb, content)
    IN  /\ t.pc = "recv"
        /\ IF type = "update" THEN DoUpdate(t.doc, content) ELSE UNCHANGED cacheVars
        /\ Settle(c, t2, BeginCall(active_connections[t.proc][t.doc], msg, t.user),
                  Pre, TRUE)
        /\ called' = called \cup {CallRec(msg, t.user, t, subscribed_documents, active_connections)}
        /\ UNCHANGED <<subscribed_documents, redis, bus_ok, inbox, sent,
                       published, relayed>>
\* The receive loop reads one envelope: an update is recorded in the cache,
\* and every type is broadcast to the others.
Read(c, type, content) ==
    LET t == task[c]
        t2 == [t EXCEPT !.inb = @ + 1, !.ctx = "recv"]
        msg == Envelope(type, t.user, c, t2.inb, content)
    IN  /\ t.pc = "recv" /\ ws[c] = "open"
        /\ IF type = "update" THEN DoUpdate(t.doc, content) ELSE UNCHANGED cacheVars
        /\ Settle(c, t2, BeginCall(active_connections[t.proc][t.doc], msg, t.user),
                  Pre, TRUE)
        /\ called' = called \cup {CallRec(msg, t.user, t, subscribed_documents, active_connections)}
        /\ UNCHANGED <<subscribed_documents, redis, bus_ok, inbox, sent,
                       published, relayed>>

\* An envelope arrives while fewer than MaxInbound have been read in all.
Receive(c, type, content) ==
    SumInb(task, NumConns) < MaxInbound /\ Read(c, type, content)

\* The receive loop reads text that json.loads rejects, or an envelope on
\* which message.get fails: the exception reaches "except Exception", which
\* disconnects the participant, and the endpoint coroutine ends.
ReceiveMalformed(c) ==
    LET t == task[c]
        s == [Pre EXCEPT !.ac = disconnect(active_connections, t.proc, t.doc, t.user)]
    IN  /\ t.pc = "recv" /\ ws[c] = "open" /\ SumInb(task, NumConns) < MaxInbound
        /\ Commit(c, [t EXCEPT !.pc = "done", !.inb = @ + 1], call[c], s)
        /\ UNCHANGED <<subscribed_documents, redis, bus_ok, inbox, sent, logVars,
                       ended, cacheVars>>

\* The client closes the connection, or its transport fails.
ClientClose(c) ==
    /\ ws[c] = "open" /\ Closes < MaxCloses
    /\ ws' = [ws EXCEPT ![c] = "closed"]
    /\ UNCHANGED <<active_connections, subscribed_documents, redis, bus_ok, inbox,
                   listener, task, call, sent, logVars, ended, cacheVars>>

\* receive_text() raises WebSocketDisconnect: disconnect, then user_left.
RecvDisconnect(c) ==
    LET t == task[c]
        s == [Pre EXCEPT !.ac = disconnect(active_connections, t.proc, t.doc, t.user)]
        m == Envelope("user_left", t.user, c, 0, None)
    IN  /\ t.pc = "recv" /\ ws[c] = "closed"
        /\ Settle(c, [t EXCEPT !.ctx = "left"],
                  BeginCall(s.ac[t.proc][t.doc], m, None), s, FALSE)
        /\ called' = called \cup {CallRec(m, None, t, subscribed_documents, s.ac)}
        /\ UNCHANGED <<subscribed_documents, redis, bus_ok, inbox, sent,
                       published, relayed>>

\* ------------------------------------------------------- relay listener
\* _redis_listener: pubsub.listen() yields a message; the listener walks the
\* room of its own document_id up to the first send.
ListenerTakes(l) ==
    LET ls == listener[l]
        m == Head(inbox[ls.proc])
        es == active_connections[ls.proc][ls.doc]
        r == NextTarget(es, NewIter(es), m.exclude_user)
    IN  /\ ls.st = "wait" /\ inbox[ls.proc] # <<>>
        /\ inbox' = [inbox EXCEPT ![ls.proc] = Tail(@)]
        /\ listener' = [listener EXCEPT ![l] =
              IF es # <<>> /\ r.kind = "item"
              THEN [ls EXCEPT !.st = "send", !.msg = m.message,
                              !.exclude = m.exclude_user, !.it = r.it,
                              !.cur = [k |-> r.k, v |-> r.v]]
              ELSE ls]
        /\ relayed' = IF es # <<>> /\ r.kind = "item" THEN relayed
                      ELSE [relayed EXCEPT ![ls.proc] = @ \cup {m.message}]
        /\ UNCHANGED <<active_connections, subscribed_documents, redis, bus_ok, ws,
                       task, call, sent, called, ended, cacheVars>>

\* A listener that hands what it received to broadcast_to_document, which
\* publishes it again.
ListenerTake_republishes(l) ==
    /\ ListenerTakes(l)
    /\ published' = published (+) SetToBag({Head(inbox[listener[l].proc]).message})

\* The listener forwards with its own loop and publishes nothing.
ListenerTake(l) ==
    /\ ListenerTakes(l)
    /\ UNCHANGED published

\* _redis_listener: the send it awaits ends (an exception is logged); next()
\* raising RuntimeError reaches the outer except, which ends the task.
ListenerStep(l) ==
    LET ls == listener[l]
        h == ls.cur.v
        r == NextTarget(active_connections[ls.proc][ls.doc], ls.it, ls.exclude)
    IN  /\ ls.st = "send"
        /\ sent' = IF ws[h] = "open" THEN [sent EXCEPT ![h] = Append(@, ls.msg)] ELSE sent
        /\ listener' = [listener EXCEPT ![l] =
              CASE r.kind = "item" -> [ls EXCEPT !.it = r.it, !.cur = [k |-> r.k, v |-> r.v]]
                [] r.kind = "stop" -> [ls EXCEPT !.st = "wait", !.it = NoIter, !.cur = NoCur,
                                                 !.msg = NoMsg, !.exclude = None]
                [] OTHER -> [ls EXCEPT !.st = "dead", !.it = NoIter, !.cur = NoCur,
                                       !.msg = NoMsg, !.exclude = None]]
        /\ relayed' = IF r.kind = "stop"
                      THEN [relayed EXCEPT ![ls.proc] = @ \cup {ls.msg}]
                      ELSE relayed
        /\ UNCHANGED <<active_connections, subscribed_documents, redis, bus_ok, inbox,
                       ws, task, call, called, published, ended, cacheVars>>

\* ------------------------------------------------------ write-back cache
\* websocket_endpoint, "update" envelope: persistence_manager.update_document
UpdateDocument(d, content) ==
    /\ DoUpdate(d, content)
    /\ UNCHANGED regVars

\* websocket_endpoint on a join: persistence_manager.load_document
LoadDocument(d) ==
    LET ld == load_document(document_cache, dirty_documents, db, d)
    IN  /\ document_cache' = ld[1]
        /\ dirty_documents' = ld[2]
        /\ last' = LastRec("load", d, {}, {}, DirtyDocs(dirty_documents))
        /\ UNCHANGED <<db, save_task, regVars>>

\* The auto-save task exists and has not finished.
TaskLive(st) == st \in {"created", "sleeping", "cancelled_new", "cancelled"}

\* A start_auto_save that creates a task whether or not one is live: the
\* task self.save_task referred to runs on, out of reach of stop_auto_save.
start_auto_save_unguarded ==
    /\ save_task.starts < MaxStarts
    /\ save_task' = [save_task EXCEPT !.st = "created", !.starts = @ + 1,
                                      !.orphans = IF TaskLive(save_task.st)
                                                  THEN @ + 1 ELSE @]
    /\ UNCHANGED <<document_cache, dirty_documents, db, last, regVars>>

\* start_auto_save: create_task(auto_save_loop()) unless a task is live.
\* The new task has not run yet.
start_auto_save ==
    /\ save_task.st \in {"none", "done"}
    /\ save_task.starts < MaxStarts
    /\ save_task' = [save_task EXCEPT !.st = "created", !.starts = @ + 1]
    /\ UNCHANGED <<document_cache, dirty_documents, db, last, regVars>>

\* auto_save_loop, first step of the task: up to the first asyncio.sleep.
LoopStart ==
    /\ save_task.st = "created"
    /\ save_task' = [save_task EXCEPT !.st = "sleeping"]
    /\ UNCHANGED <<document_cache, dirty_documents, db, last, regVars>>

\* The sweep of save_all_dirty_documents on the cache, as op.
Sweep(op, F) ==
    LET r == save_all_dirty_documents(document_cache, dirty_documents, db, F)
    IN  /\ db' = r.db
        /\ dirty_documents' = r.dd
        /\ last' = LastRec(op, <<>>, r.tried, r.failed, DirtyDocs(dirty_documents))
        /\ UNCHANGED document_cache

\* auto_save_loop: the sleep ends, one sweep, the next sleep begins.
SleepEnds(F) ==
    /\ save_task.st = "sleeping"
    /\ save_task.sweeps < MaxSweeps
    /\ save_task' = [save_task EXCEPT !.sweeps = @ + 1]
    /\ Sweep("save", F)
    /\ UNCHANGED regVars

\* stop_auto_save: self.save_task.cancel(), then await the task.
stop_auto_save ==
    /\ save_task.st \in {"created", "sleeping"}
    /\ save_task' = [save_task EXCEPT !.st = IF @ = "created" THEN "cancelled_new"
                                                              ELSE "cancelled"]
    /\ UNCHANGED <<document_cache, dirty_documents, db, last, regVars>>

\* The cancelled task's next step.  A task cancelled before its first step
\* never runs the coroutine body; one cancelled in asyncio.sleep runs the
\* except CancelledError branch: a last sweep, then break.
CancelDelivered(F) ==
    /\ save_task.st \in {"cancelled_new", "cancelled"}
    /\ save_task' = [save_task EXCEPT !.st = "done"]
    /\ IF save_task.st = "cancelled"
       THEN Sweep("stop", F)
       ELSE /\ F = {}
            /\ last' = LastRec("cancel", <<>>, {}, {}, DirtyDocs(dirty_documents))
            /\ UNCHANGED <<document_cache, dirty_documents, db>>
    /\ UNCHANGED regVars

\* ------------------------------------------------------------------ specs
InitCache ==
    /\ document_cache = [d \in DocIds |-> None]
    /\ dirty_documents = <<>>
    /\ db \in [RowIds -> Contents \cup {None}]
    /\ save_task = [st |-> "none", sweeps |-> 0, starts |-> 0, orphans |-> 0]
    /\ last = NoLast

InitReg(up) ==
    /\ active_connections = [p \in Procs |-> [d \in DocIds |-> <<>>]]
    /\ subscribed_documents = [p \in Procs |-> {}]
    /\ redis = [p \in Procs |-> up]
    /\ bus_ok = TRUE
    /\ inbox = [p \in Procs |-> <<>>]
    /\ listener = [c \in Conns |-> NoListener]
    /\ ws = [c \in Conns |-> "new"]
    /\ task = [c \in Conns |-> IdleTask]
    /\ call = [c \in Conns |-> NoCall]
    /\ sent = [c \in Conns |-> <<>>]
    /\ called = {}
    /\ published = EmptyBag
    /\ relayed = [p \in Procs |-> {}]
    /\ ended = NoCall

Inbound == {<<"update", x>> : x \in {"x"}} \cup {<<"cursor", None>>}

\* One server process without a bus (connect_redis failed: single-server mode).
Init == InitReg(FALSE) /\ InitCache /\ db = [r \in RowIds |-> None]
Next ==
    \/ \E c \in Conns, d \in {Doc7}, u \in Users : Start(c, "A", d, u)
    \/ \E c \in Conns : Accept(c)
    \/ \E c \in Conns : BStep(c)
    \/ \E c \in Conns : InitSent(c)
    \/ \E c \in Conns, i \in Inbound : Receive(c, i[1], i[2])
    \/ \E c \in Conns : ClientClose(c)
    \/ \E c \in Conns : RecvDisconnect(c)
Spec == Init /\ [][Next]_vars

\* Two server processes on one bus (connect_redis succeeded on both): the
\* first connection goes to process A, the later ones to process B, each with
\* its own participant id.  A connection arrives once the earlier ones are
\* registered and subscribed; the first peer sends a cursor envelope, and no
\* peer closes.
RelayInbound == {<<"cursor", None>>}
InTurn(c) == \A c2 \in Conns : c2 < c => task[c2].pc \notin {"accept", "subscribe"}
RelayProc(c) == IF c = 1 THEN "A" ELSE "B"
InitRelay == InitReg(TRUE) /\ InitCache /\ db = [r \in RowIds |-> None]
NextRelay ==
    \/ \E c \in Conns : InTurn(c) /\ Start(c, RelayProc(c), Doc7, UserOrder[c])
    \/ \E c \in Conns : Accept(c)
    \/ \E c \in Conns : SubscribeDone(c)
    \/ \E c \in Conns : BStep(c)
    \/ \E c \in Conns : Publish(c)
    \/ \E c \in Conns : InitSent(c)
    \/ \E i \in RelayInbound : Receive(1, i[1], i[2])
    \/ \E l \in Conns : ListenerTake(l)
    \/ \E l \in Conns : ListenerStep(l)
SpecRelay == InitRelay /\ [][NextRelay]_vars

\* One server process with a bus: connection requests with any token, and
\* peers that send well-formed and malformed envelopes.  A connection arrives
\* once the earlier ones are registered and subscribed, and no peer closes.
Admitted == Cardinality({c \in Conns : task[c].pc \notin {"idle", "rejected"}})
InitGate == InitReg(TRUE) /\ InitCache /\ db = [r \in RowIds |-> None]
NextGate ==
    \/ \E c \in Conns, tok \in Tokens :
          /\ InTurn(c)
          /\ verify_token(tok) # None => Admitted < MaxAdmitted
          /\ Handshake(c, "A", Doc7, tok)
    \/ \E c \in Conns : Accept(c)
    \/ \E c \in Conns : SubscribeDone(c)
    \/ \E c \in Conns : BStep(c)
    \/ \E c \in Conns : Publish(c)
    \/ \E c \in Conns : InitSent(c)
    \/ \E c \in Conns, i \in RelayInbound : Receive(c, i[1], i[2])
    \/ \E c \in Conns : ReceiveMalformed(c)
    \/ \E l \in Conns : ListenerTake(l)
    \/ \E l \in Conns : ListenerStep(l)
SpecGate == InitGate /\ [][NextGate]_vars

\* One server process with a bus: connections for one document arrive in any
\* interleaving, so that a second connect may reach the subscription check
\* before the first subscription has completed.
InitRace == InitReg(TRUE) /\ InitCache /\ db = [r \in RowIds |-> None]
NextRace ==
    \/ \E c \in Conns : Admitted < MaxAdmitted /\ Start(c, "A", Doc7, UserOrder[c])
    \/ \E c \in Conns : Accept(c)
    \/ \E c \in Conns : SubscribeDone(c)
    \/ \E c \in Conns : BStep(c)
    \/ \E c \in Conns : Publish(c)
    \/ \E c \in Conns : InitSent(c)
    \/ \E l \in Conns : ListenerTake(l)
    \/ \E l \in Conns : ListenerStep(l)
SpecRace == InitRace /\ [][NextRace]_vars

\* One server process whose bus is out of reach: either connect_redis failed at
\* startup (redis is None), or it succeeded and every later subscribe and
\* publish call raises.  Each connection has its own participant id; the
\* first peer sends a cursor envelope, and no peer closes.
InitOutage ==
    /\ active_connections = [p \in Procs |-> [d \in DocIds |-> <<>>]]
    /\ subscribed_documents = [p \in Procs |-> {}]
    /\ redis \in {[p \in Procs |-> b] : b \in BOOLEAN}
    /\ bus_ok = FALSE
    /\ inbox = [p \in Procs |-> <<>>]
    /\ listener = [c \in Conns |-> NoListener]
    /\ ws = [c \in Conns |-> "new"]
    /\ task = [c \in Conns |-> IdleTask]
    /\ call = [c \in Conns |-> NoCall]
    /\ sent = [c \in Conns |-> <<>>]
    /\ called = {}
    /\ published = EmptyBag
    /\ relayed = [p \in Procs |-> {}]
    /\ ended = NoCall
    /\ InitCache
    /\ db = [r \in RowIds |-> None]
NextOutage ==
    \/ \E c \in Conns : Start(c, "A", Doc7, UserOrder[c])
    \/ \E c \in Conns : Accept(c)
    \/ \E c \in Conns : SubscribeDone(c)
    \/ \E c \in Conns : BStep(c)
    \/ \E c \in Conns : Publish(c)
    \/ \E c \in Conns : InitSent(c)
    \/ \E i \in RelayInbound : Receive(1, i[1], i[2])
SpecOutage == InitOutage /\ [][NextOutage]_vars

\* One server process without a bus, whose participants join (under any of
\* the participant ids) and leave: a peer closes its connection, and the
\* endpoint and the broadcasts of the others disconnect it.
NextLeave ==
    \/ \E c \in Conns, u \in Users : Start(c, "A", Doc7, u)
    \/ \E c \in Conns : Accept(c)
    \/ \E c \in Conns : BStep(c)
    \/ \E c \in Conns : InitSent(c)
    \/ \E c \in Conns : ClientClose(c)
    \/ \E c \in Conns : RecvDisconnect(c)
SpecLeave == Init /\ [][NextLeave]_vars

\* One server process without a bus and a store that holds a row for the
\* document: participants join, each under its own id, and send edits.
JoinInbound == {<<"update", x>> : x \in Contents}
InitJoin == InitReg(FALSE) /\ InitCache /\ \A r \in RowIds : db[r] # None
NextJoin ==
    \/ \E c \in Conns : Start(c, "A", Doc7, UserOrder[c])
    \/ \E c \in Conns : Accept(c)
    \/ \E c \in Conns : BStep(c)
    \/ \E c \in Conns : InitSent(c)
    \/ \E c \in Conns, i \in JoinInbound : Receive(c, i[1], i[2])
SpecJoin == InitJoin /\ [][NextJoin]_vars

\* Two server processes on one bus: the receivers connect to process B in any
\* interleaving; once they have joined and B is quiet, the sender connects to
\* process A and sends up to MaxStream cursor envelopes.  No peer closes.
Sender == NumConns
StreamProc(c) == IF c = Sender THEN "A" ELSE "B"
Joined(c) == task[c].pc = "recv"
Quiet(p) ==
    /\ inbox[p] = <<>>
    /\ \A l \in Conns : listener[l].proc = p => listener[l].st # "send"
StreamTurn(c) == c = Sender => Quiet("B") /\ \A b \in Conns \ {Sender} : Joined(b)
InitStream == InitReg(TRUE) /\ InitCache /\ db = [r \in RowIds |-> None]
NextStream ==
    \/ \E c \in Conns : StreamTurn(c) /\ Start(c, StreamProc(c), Doc7, UserOrder[c])
    \/ \E c \in Conns : Accept(c)
    \/ \E c \in Conns : SubscribeDone(c)
    \/ \E c \in Conns : BStep(c)
    \/ \E c \in Conns : Publish(c)
    \/ \E c \in Conns : InitSent(c)
    \/ \E i \in RelayInbound :
          task[Sender].inb < MaxStream /\ Read(Sender, i[1], i[2])
    \/ \E l \in Conns : ListenerTake(l)
    \/ \E l \in Conns : ListenerStep(l)
SpecStream == InitStream /\ [][NextStream]_vars

\* One server process with a bus and two documents: the first participant
\* joins document "7", the later ones document "demo-doc".  A connection
\* arrives once the earlier ones are registered and subscribed.
RoomOf(c) == IF c = 1 THEN Doc7 ELSE DocDemo
InitRooms == InitReg(TRUE) /\ InitCache /\ db = [r \in RowIds |-> None]
NextRooms ==
    \/ \E c \in Conns : InTurn(c) /\ Start(c, "A", RoomOf(c), UserOrder[c])
    \/ \E c \in Conns : Accept(c)
    \/ \E c \in Conns : SubscribeDone(c)
    \/ \E c \in Conns : BStep(c)
    \/ \E c \in Conns : Publish(c)
    \/ \E c \in Conns : InitSent(c)
    \/ \E l \in Conns : ListenerTake(l)
    \/ \E l \in Conns : ListenerStep(l)
SpecRooms == InitRooms /\ [][NextRooms]_vars

\* One server process with a bus whose participants join document "7" one
\* after the other and may leave: a peer closes its connection while the
\* relay listener and the broadcasts are delivering.
InitFade == InitReg(TRUE) /\ InitCache /\ db = [r \in RowIds |-> None]
NextFade ==
    \/ \E c \in Conns :
          /\ InTurn(c) /\ Admitted < MaxAdmitted
          /\ Start(c, "A", Doc7, UserOrder[c])
    \/ \E c \in Conns : Accept(c)
    \/ \E c \in Conns : SubscribeDone(c)
    \/ \E c \in Conns : BStep(c)
    \/ \E c \in Conns : Publish(c)
    \/ \E c \in Conns : InitSent(c)
    \/ \E c \in Conns : ClientClose(c)
    \/ \E c \in Conns : RecvDisconnect(c)
    \/ \E l \in Conns : ListenerTake(l)
    \/ \E l \in Conns : ListenerStep(l)
SpecFade == InitFade /\ [][NextFade]_vars

\* The write-back cache of one process: edits and joins of the gateway, the
\* auto-save task, and a store whose commits may fail.
SaveDocs == {Doc7, Doc07, DocDemo}
CommitFails == SUBSET {d \in SaveDocs : Savable(d)}
InitSave == InitReg(FALSE) /\ InitCache
NextSave ==
    \/ \E d \in SaveDocs, x \in Contents : UpdateDocument(d, x)
    \/ \E d \in SaveDocs : LoadDocument(d)
    \/ start_auto_save
    \/ LoopStart
    \/ \E F \in CommitFails : SleepEnds(F)
    \/ stop_auto_save
    \/ \E F \in CommitFails : CancelDelivered(F)
SpecSave == InitSave /\ [][NextSave]_vars


\* ----------------------------------------------------------------- claims
SeqSet(q) == {q[i] : i \in DOMAIN q}

\* The participant ids with an open connection to document d on process p:
\* accepted, registered by connect(), not closed by either side.
OpenUsers(p, d) ==
    {task[c].user : c \in {c2 \in Conns : /\ ws[c2] = "open"
                                          /\ task[c2].proc = p
                                          /\ task[c2].doc = d}}

\* Every connection its peer has closed has been torn down by its endpoint.
TornDown == \A c \in Conns : ws[c] = "closed" => task[c].pc \in {"done", "crashed"}

\* No connect() has ended in an exception.
NoCrash == \A c \in Conns : task[c].pc # "crashed"

\* C1: after each connect and disconnect operation get_active_users(d) is
\* exactly the set of participant ids that have an open connection to d
\* (checked on the runs in which no broadcast has raised).
C1_ActiveUsersExact ==
    (TornDown /\ NoCrash) =>
        \A p \in Procs, d \in DocIds :
            SeqSet(get_active_users(active_connections, p, d)) = OpenUsers(p, d)

\* The step in which task c's broadcast_to_document call ends.
CallEnds(c) == ended' # ended /\ ended'.by = c
Attempted(fr) == fr.delivered \cup fr.raisedOn
Room(c) == active_connections[task[c].proc][task[c].doc]

\* C2: a broadcast with exclude_user = P, P registered, has sent the message
\* to the handle of every other registered participant when it ends, and has
\* not sent it to P's handle.
C2_BroadcastReachesAllButExcluded ==
    [][\A c \in Conns :
          (CallEnds(c) /\ ended'.exclude \in {i.k : i \in ended'.snapshot}) =>
              \A i \in ended'.snapshot :
                  IF i.k = ended'.exclude
                  THEN i.v \notin Attempted(ended')
                  ELSE i \in DictItems(Room(c)') => i.v \in Attempted(ended')]_vars

\* C3: when a send raised during a broadcast, every other non-excluded
\* participant was still sent the message, the call returned, and the failed
\* participant is not in get_active_users once it has returned.
C3_FailureIsolated ==
    [][\A c \in Conns :
          (CallEnds(c) /\ ended'.raisedOn # {}) =>
              /\ ended'.at = "returned"
              /\ \A i \in ended'.snapshot :
                    (i.k # ended'.exclude /\ i \in DictItems(Room(c)') /\ ws'[i.v] = "open")
                        => i.v \in ended'.delivered
              /\ \A j \in DOMAIN ended'.failed :
                    ended'.failed[j].k \notin
                        SeqSet(get_active_users(active_connections', task[c].proc, task[c].doc))]_vars

\* ------------------------------------------------------------ relay claims
Count(q, m) == Cardinality({i \in DOMAIN q : q[i] = m})

\* Nothing is under way: every endpoint waits in receive_text() or has ended,
\* no listener is inside a delivery, and no process has a bus message that a
\* waiting listener could still take.
Settled ==
    /\ \A c \in Conns : task[c].pc \in {"idle", "recv", "done", "crashed"}
    /\ \A l \in Conns : listener[l].st # "send"
    /\ \A p \in Procs :
          inbox[p] = <<>> \/ \A l \in Conns : ~(listener[l].st = "wait" /\ listener[l].proc = p)

\* C4: with the origin process and another process both subscribed to the
\* document and the bus reachable, the message of every gateway
\* broadcast_to_document call on the origin has been sent by the other
\* process to each participant registered there (from the call on, with an
\* open connection, and not the excluded one) by the time nothing is under
\* way any more.
C4_RelayReachesOtherProcess ==
    Settled =>
        \A r \in called : \A q \in Procs \ {r.proc} :
            ({r.proc, q} \subseteq r.subs /\ bus_ok) =>
                \A i \in r.rooms[q] :
                    ( /\ i.k # r.exclude
                      /\ i \in DictItems(active_connections[q][r.doc])
                      /\ ws[i.v] = "open" ) => Count(sent[i.v], r.m) >= 1

\* C5: a participant registered on the process where a message was broadcast
\* is sent that message at most once.
C5_NoEchoToOrigin ==
    \A r \in called : \A h \in Conns :
        (task[h].pc # "idle" /\ task[h].proc = r.proc) => Count(sent[h], r.m) <= 1

\* C6: the bus gets one publish per gateway broadcast_to_document call that
\* returns and none for anything else: no message is published twice, every
\* published message is that of a gateway call, and the publishes never
\* outnumber the gateway calls.
C6_OnePublishPerBroadcast ==
    /\ \A m \in BagToSet(published) :
          CopiesIn(m, published) = 1 /\ m \in {r.m : r \in called}
    /\ BagCardinality(published) <= Cardinality(called)
    /\ (ended.at = "returned" /\ redis[task[ended.by].proc] /\ bus_ok)
          => CopiesIn(ended.msg, published) = 1

\* A published message has been delivered by the listener of another
\* process to a participant there, and nothing is under way.
C6_RelayedElsewhere ==
    /\ Settled
    /\ \E r \in called : \E h \in Conns :
          /\ task[h].pc # "idle" /\ task[h].proc # r.proc
          /\ r.m \in relayed[task[h].proc]
          /\ Count(sent[h], r.m) = 1
          /\ CopiesIn(r.m, published) = 1

\* ------------------------------------------------- write-back cache claims
\* What the durable store holds for document id d.
Stored(store, d) == IF Savable(d) THEN store[int(d)] ELSE None

\* The step is one run of save_all_dirty_documents.
SweepStep ==
    \/ save_task'.sweeps = save_task.sweeps + 1
    \/ save_task.st = "cancelled" /\ save_task'.st = "done"

\* C7: after update_document(d, content) and one save_all_dirty_documents
\* run in which no commit failed, the store holds content for d and d is no
\* longer dirty, whatever the form of d.
C7_SaveStoresContent ==
    (last.op \in {"save", "stop"} /\ last.failed = {}) =>
        \A d \in last.before :
            ~IsDirty(dirty_documents, d) /\ Stored(db, d) = document_cache[d]

\* C8: one sweep attempts the write of every dirty document once; a document
\* whose write failed stays dirty with its cached content, and every other
\* one is persisted and clean.
C8_SweepAttemptsEveryDirty ==
    [][SweepStep =>
          /\ last'.tried = DirtyDocs(dirty_documents)
          /\ \A d \in last'.failed :
                IsDirty(dirty_documents', d) /\ document_cache'[d] = document_cache[d]
          /\ \A d \in last'.tried \ last'.failed :
                ~IsDirty(dirty_documents', d)]_vars

\* C9: when the cancelled auto-save task ends, it has run one last sweep:
\* if every dirty document has a numeric id and no commit failed, no document
\* is dirty at that moment.
C9_FinalSaveOnStop ==
    [][( /\ save_task.st \in {"cancelled_new", "cancelled"}
         /\ save_task'.st = "done"
         /\ last'.failed = {}
         /\ \A d \in DirtyDocs(dirty_documents) : Savable(d) )
          => DirtyDocs(dirty_documents') = {}]_vars

\* C10: an entry goes from dirty to not dirty only in a sweep that wrote it
\* without failure, and the cached content of a dirty entry is replaced only
\* by update_document.
C10_DirtyClearedOnlyByFlush ==
    [][\A d \in DocIds :
          /\ (IsDirty(dirty_documents, d) /\ ~IsDirty(dirty_documents', d))
                => (SweepStep /\ d \in last'.tried \ last'.failed)
          /\ (IsDirty(dirty_documents, d) /\ document_cache'[d] # document_cache[d])
                => (last'.op = "update" /\ last'.doc = d)]_vars

\* C11: whatever the interleaving of update_document calls and sweeps, the
\* cached content of a document and the content of a store row are each a
\* value passed whole to one update_document call (or the store's own), and
\* what a sweep has written for a document is the cached content of a
\* document of that row.
C11_NoTornContent ==
    /\ \A d \in DocIds : document_cache[d] \in Contents \cup {None}
    /\ \A r \in RowIds : db[r] \in Contents \cup {None}
    /\ last.op \in {"save", "stop"} =>
          \A d \in last.tried \ last.failed :
              \E e \in DocIds :
                  Savable(e) /\ int(e) = int(d) /\ db[int(d)] = document_cache[e]

\* A sweep has written two entries of one store row ("7" and "07") whose
\* cached contents differ, each from its own update_document call.
C11_TwoEditsSwept ==
    /\ last.op = "save"
    /\ last.tried \ last.failed = {Doc7, Doc07}
    /\ document_cache[Doc7] # document_cache[Doc07]
    /\ db[7] \in Contents

\* ------------------------------------------------------- gateway claims
\* The step in which connection c's send_personal_message(init) call ends.
InitCallEnds(c) == task[c].pc = "init" /\ task'[c].pc # "init"

\* C12: send_personal_message changes what one handle has been sent and no
\* other; when its send fails the caller is told, so the endpoint does not
\* go on to the receive loop as it does after a delivered init envelope.
C12_InitFailureReported ==
    [][\A c \in Conns :
          InitCallEnds(c) =>
              /\ \A h \in Conns \ {c} : sent'[h] = sent[h]
              /\ \/ sent'[c] = Append(sent[c], InitEnvelope(c, task[c]))
                 \/ sent'[c] = sent[c] /\ task'[c].pc # "recv"]_vars

\* The step in which connection c's receive loop reads an envelope and makes
\* no broadcast_to_document call: the envelope was malformed.
MalformedRead(c) == task'[c].inb = task[c].inb + 1 /\ called' = called

\* C13: a malformed inbound envelope is ignored and nothing else happens:
\* the participant stays registered, the connection stays open and the
\* receive loop keeps running.
C13_MalformedEnvelopeIgnored ==
    [][\A c \in Conns :
          MalformedRead(c) =>
              /\ active_connections' = active_connections
              /\ ws'[c] = "open"
              /\ task'[c].pc = "recv"]_vars

\* The handles the registry holds, on any process and for any document.
Registered ==
    {i.v : i \in UNION {DictItems(active_connections[p][d]) : p \in Procs, d \in DocIds}}

\* C14: the step that refuses a connection closes it and changes neither the
\* registry, nor what any handle has been sent, nor the calls, publishes,
\* subscriptions and listeners; and a refused connection is never registered
\* or sent anything afterwards.
C14_RefusedBeforeAnything ==
    [][\A c \in Conns :
          /\ (task[c].pc = "idle" /\ task'[c].pc = "rejected") =>
                /\ ws'[c] = "ended"
                /\ UNCHANGED <<active_connections, sent, called, published,
                               subscribed_documents, listener, inbox>>
          /\ task'[c].pc = "rejected" =>
                /\ c \notin Registered'
                /\ sent'[c] = <<>>
                /\ \A r \in called' : r.m.src # c]_vars

\* A connection has been refused while another participant is registered
\* and subscribed, and that participant has since been sent an envelope.
C14_RefusedBesideParticipant ==
    \E c \in Conns : \E h \in Conns :
        /\ task[c].pc = "rejected" /\ c > h
        /\ h \in Registered /\ sent[h] # <<>>
        /\ Doc7 \in subscribed_documents["A"]

\* The listener tasks of process p for document d that have been created and
\* have not ended.
Listeners(p, d) ==
    {l \in Conns : listener[l].st \in {"wait", "send"}
                    /\ listener[l].proc = p /\ listener[l].doc = d}

\* C15: on one process there is at most one relay listener task per document
\* id at any time, under any interleaving of connect calls.
C15_OneListenerPerDocument ==
    \A p \in Procs, d \in DocIds : Cardinality(Listeners(p, d)) <= 1

\* The bus is out of reach of task c's process: it was unavailable at startup,
\* or its subscribe and publish calls raise.
BusOut(c) == ~redis[task[c].proc] \/ ~bus_ok

\* C16: with the bus out of reach, a broadcast_to_document call that ends has
\* returned and has sent its message to every non-excluded participant that
\* was registered when it began and still is; connect registers the
\* participant; and the failing subscribe and publish calls leave the
\* registry as it is.
C16_BusFailureIsolated ==
    [][\A c \in Conns :
          BusOut(c) =>
              /\ CallEnds(c) =>
                    /\ ended'.at = "returned"
                    /\ \A i \in ended'.snapshot :
                          (i.k # ended'.exclude /\ i \in DictItems(Room(c)'))
                              => i.v \in Attempted(ended')
              /\ (task[c].pc = "accept" /\ task'[c].pc # "accept") =>
                    [k |-> task[c].user, v |-> c] \in DictItems(Room(c)')
              /\ ((task[c].pc = "subscribe" /\ task'[c].pc # "subscribe")
                     \/ (call[c].at = "publish" /\ call'[c].at # "publish")) =>
                    active_connections' = active_connections]_vars

\* The keys of the sequence q that are not u, in their order.
RECURSIVE Without(_, _)
Without(q, u) ==
    IF q = <<>> THEN <<>>
    ELSE IF q[1] = u THEN Without(Tail(q), u)
    ELSE <<q[1]>> \o Without(Tail(q), u)

\* What disconnect(d, u) on process p must make of the registry ac.
DisconnectOk(ac, p, d, u) ==
    LET a1 == disconnect(ac, p, d, u)
    IN  /\ \A q \in Procs, e \in DocIds : <<q, e>> # <<p, d>> => a1[q][e] = ac[q][e]
        /\ DictItems(a1[p][d]) = {i \in DictItems(ac[p][d]) : i.k # u}
        /\ get_active_users(a1, p, d) = Without(get_active_users(ac, p, d), u)
        /\ DictItems(a1[p][d]) = {} => a1[p][d] = <<>>
        /\ u \notin DictKeys(ac[p][d]) => a1 = ac
        /\ disconnect(a1, p, d, u) = a1

\* The step in which the endpoint of c handles WebSocketDisconnect.
Leaves(c) == task[c].pc = "recv" /\ ws[c] = "closed" /\ task'[c] # task[c]

\* C17: on every registry the gateway reaches, disconnect(d, u) removes the
\* handle of u if there is one and deletes the room when it becomes empty,
\* changes nothing else, changes nothing at all when u or d is not
\* registered, and a second call changes nothing; and the endpoint's
\* disconnect step leaves the registry in exactly that state.
C17_DisconnectIdempotent ==
    [][/\ \A p \in Procs, d \in DocIds, u \in Users :
              DisconnectOk(active_connections, p, d, u)
       /\ \A c \in Conns :
              Leaves(c) =>
                  /\ task[c].user \notin DictKeys(Room(c)')
                  /\ DictItems(Room(c)') =
                        {i \in DictItems(Room(c)) : i.k # task[c].user}
                  /\ DictItems(Room(c)') = {} => Room(c)' = <<>>]_vars

\* An endpoint has handled the disconnect of a participant whose handle a
\* broadcast on the same process had already removed after a failed send: one
\* of the two disconnect calls found the participant not registered.
C17_DisconnectedTwice ==
    \E c \in Conns :
        /\ task[c].ctx = "left"
        /\ ended.at = "returned"
        /\ \E j \in DOMAIN ended.failed : ended.failed[j].v = c
        /\ task[c].user \notin DictKeys(Room(c))

\* The step in which connect() of c registers its handle.
Registers(c) == task[c].pc = "accept" /\ task'[c].pc # "accept"

\* C18: connect registers the handle under the participant id in the
\* document's room, in place of any handle the id had there (the id appears
\* once), and leaves the handles of every other participant and of every
\* other room as they were.
C18_ConnectRegistersLastWins ==
    [][\A c \in Conns :
          Registers(c) =>
              LET u == task[c].user
                  p == task[c].proc
                  d == task[c].doc
              IN  /\ [k |-> u, v |-> c] \in DictItems(active_connections'[p][d])
                  /\ Cardinality({i \in DictItems(active_connections'[p][d]) : i.k = u}) = 1
                  /\ Count(get_active_users(active_connections', p, d), u) = 1
                  /\ {i \in DictItems(active_connections'[p][d]) : i.k # u}
                        = {i \in DictItems(active_connections[p][d]) : i.k # u}
                  /\ \A q \in Procs, e \in DocIds :
                        <<q, e>> # <<p, d>> =>
                            active_connections'[q][e] = active_connections[q][e]]_vars

\* A second connection under a participant id has been registered in a room
\* that holds another participant too: the id's handle is the later one.
C18_Reconnected ==
    \E c \in Conns : \E b \in Conns :
        /\ b < c /\ task[b].user = task[c].user
        /\ task[b].pc \notin {"idle", "accept"} /\ task[c].pc \notin {"idle", "accept"}
        /\ [k |-> task[c].user, v |-> c] \in DictItems(Room(c))
        /\ DictLen(Room(c)) = 2

\* C19: the first envelope a participant's handle is sent is its init
\* envelope.
C19_InitIsFirstEnvelope ==
    \A c \in Conns : sent[c] # <<>> => sent[c][1].type = "init"

\* C20: the active_users list of an init envelope sent to a participant does
\* not contain the participant's own id.
C20_InitListsOthersOnly ==
    \A c \in Conns : \A j \in DOMAIN sent[c] :
        sent[c][j].type = "init" =>
            task[c].user \notin SeqSet(sent[c][j].active_users)

\* The step in which the endpoint of c loads the document for its init
\* envelope, and the step in which the envelope is sent.
LoadsForInit(c) == task[c].pc # "init" /\ task'[c].pc = "init"
SendsInit(c) == task[c].pc = "init" /\ task'[c].pc # "init" /\ sent'[c] # sent[c]

\* C21: when the document has edits recorded by update_document and not yet
\* flushed, the content loaded for a joining participant's init envelope is
\* the content of the most recent update_document call (the cached content),
\* and the envelope sent carries what was loaded.
C21_InitCarriesLatestEdit ==
    [][\A c \in Conns :
          /\ (LoadsForInit(c) /\ IsDirty(dirty_documents, task[c].doc)) =>
                task'[c].content = document_cache[task[c].doc]
          /\ SendsInit(c) =>
                sent'[c][Len(sent'[c])].data = task[c].content]_vars

\* The endpoint coroutine of c has ended.
Ended(c) == task[c].pc \in {"done", "crashed"}

\* C22: when a participant's endpoint ends while other participants remain
\* in the document's room, its handle is no longer in the registry and a
\* user_left broadcast has been made for it.
C22_LeaveIsAnnounced ==
    [][\A c \in Conns :
          (~Ended(c) /\ Ended(c)' /\ DictLen(Room(c)') > 0) =>
              /\ c \notin Registered'
              /\ \E r \in called' : r.m.type = "user_left" /\ r.m.src = c]_vars

\* The i-th envelope of q is the first copy of it in q.
FirstCopy(q, i) == \A k \in 1 .. (i - 1) : q[k] # q[i]

\* C23: two envelopes that one sender sent on one connection reach every
\* handle that is sent both in the order in which they were sent (on the
\* sender's own process, which also relays its own messages back, the order
\* of their first copies).
C23_StreamOrderKept ==
    \A h \in Conns : \A i \in DOMAIN sent[h] : \A j \in DOMAIN sent[h] :
        (/\ sent[h][i].src = sent[h][j].src
         /\ sent[h][i].n > 0
         /\ sent[h][i].n < sent[h][j].n
         /\ FirstCopy(sent[h], i) /\ FirstCopy(sent[h], j)) => i < j

\* C24: no broadcast_to_document call ends in an error (so no sender is
\* disconnected by its own broadcast), and no relay listener has stopped,
\* whatever connects or disconnects while a delivery loop is inside a send.
C24_RegistrySafeUnderConcurrency ==
    /\ ended.at # "raised"
    /\ \A c \in Conns : call[c].at # "raised"
    /\ \A l \in Conns : listener[l].st # "dead"

\* The handles on which a send of the call frame fr has raised.
FailedOn(fr) == {fr.failed[j].v : j \in DOMAIN fr.failed}

C26_RelayKeepsToDocument ==
    [][/\ \A h \in Conns : \A i \in DOMAIN sent'[h] :
              sent'[h][i].src > 0 => task'[sent'[h][i].src].doc = task'[h].doc
       /\ \A l \in Conns :
              (listener[l].st = "wait" /\ listener'[l].st = "send") =>
                  Head(inbox[listener[l].proc]).channel = listener[l].doc]_vars

\* The step in which listener l ends a delivery with a send that raised.
RelayEndsFailed(l) ==
    /\ listener[l].st = "send" /\ listener'[l].st = "wait"
    /\ ws[listener[l].cur.v] # "open"

\* C27: when the relay listener's delivery has ended with a send that raised,
\* the message has been relayed and the participant of the failed send is no
\* longer in the registry (nor in get_active_users).
C27_RelayFailurePrunes ==
    [][\A l \in Conns :
          RelayEndsFailed(l) =>
              /\ listener[l].msg \in relayed'[listener[l].proc]
              /\ [k |-> listener[l].cur.k, v |-> listener[l].cur.v]
                    \notin DictItems(active_connections'[listener[l].proc][listener[l].doc])
              /\ ws'[listener[l].cur.v] = "closed" =>
                    listener[l].cur.k \notin
                        SeqSet(get_active_users(active_connections', listener[l].proc,
                                                listener[l].doc))]_vars

\* The auto_save_loop tasks of the process that have not finished.
LiveTasks == save_task.orphans + (IF TaskLive(save_task.st) THEN 1 ELSE 0)

\* C28: at most one flush loop task is live, after any sequence of
\* start_auto_save and stop_auto_save calls (a sweep has no await, so the
\* sweeps of one task never overlap).
C28_OneFlushLoop == LiveTasks <= 1

\* The flush loop has been started, stopped and started again, and the second
\* task is live.
C28_Restarted ==
    /\ save_task.starts = MaxStarts /\ MaxStarts >= 2
    /\ TaskLive(save_task.st)
    /\ save_task.sweeps >= 1

\* C29: a document that has a cache entry and is not dirty has cached content
\* equal to the content the store holds for it.
C29_CleanMatchesStore ==
    \A d \in DocIds :
        (d \in DirtyKeys(dirty_documents) /\ ~IsDirty(dirty_documents, d)
            /\ document_cache[d] # None) =>
                Stored(db, d) = document_cache[d]

\* Connection p has been told of the participant of connection q: by the
\* active_users list of its init envelope or by a user_joined envelope.
Told(p, q) ==
    \E i \in DOMAIN sent[p] :
        \/ sent[p][i].type = "init" /\ task[q].user \in SeqSet(sent[p][i].active_users)
        \/ sent[p][i].type = "user_joined" /\ sent[p][i].user_id = task[q].user

\* C30: once two participants have both completed their join to the same
\* document on one process, each has been told of the other.
C30_PresenceSymmetric ==
    \A p \in Conns : \A q \in Conns \ {p} :
        (/\ Joined(p) /\ Joined(q)
         /\ task[p].proc = task[q].proc /\ task[p].doc = task[q].doc
         /\ task[p].user # task[q].user) => Told(p, q)

\* C31: a step that registers no connection (a teardown, a pruning, or any
\* other) leaves every registered handle whose connection stays open in the
\* registry.
C31_TeardownSparesNewerHandle ==
    [][(\A c \in Conns : ~Registers(c)) =>
          \A h \in Conns :
              (h \in Registered /\ ws[h] = "open" /\ ws'[h] = "open") =>
                  h \in Registered']_vars

\* C32: subscribed_documents only grows, and every document id in it has a
\* running relay listener on its process.
C32_SubscribedHasListener ==
    [][\A p \in Procs :
          /\ subscribed_documents[p] \subseteq subscribed_documents'[p]
          /\ \A d \in subscribed_documents'[p] : \E l \in Conns :
                /\ listener'[l].st \in {"wait", "send"}
                /\ listener'[l].proc = p /\ listener'[l].doc = d]_vars

====
